---- MODULE Spec2Model ----
(***************************************************************************)
(* Model of encode_task_macs2_chip.py: the MACS2 call-peak wrapper.        *)
(*                                                                         *)
(* main() parses the arguments, calls macs2() and verifies the returned    *)
(* narrowPeak file.  macs2() runs the external caller, sorts the raw peak  *)
(* list with sort(1), rewrites it with awk, truncates it with head(1),     *)
(* clips it with bed_clip and removes the temporary files.                 *)
(*                                                                         *)
(* File names and the lines of a peak file are TLA+ strings; the file      *)
(* system is a function from file names to file contents.                  *)
(***************************************************************************)
EXTENDS Integers, Sequences, FiniteSets, TLC

VARIABLES
    pc,        \* position of the script: the next statement of main()/macs2()
    rc,        \* exit status of the last external command
    args,      \* the namespace returned by parse_arguments()
    ctl_ta,    \* macs2()'s local ctl_ta (rebound by control subsampling)
    cmd0,      \* the last command line handed to the external peak caller
    fs,        \* the file system: file name -> file content
    budget     \* invocations of the script the environment will still make

vars == <<pc, rc, args, ctl_ta, cmd0, fs, budget>>

(***************************************************************************)
(* Bounds of the model.                                                    *)
(***************************************************************************)
MaxPeaks == 3       \* longest raw peak list the caller writes
MaxRuns == 2        \* script invocations sharing one output directory

(***************************************************************************)
(* Strings.                                                                *)
(***************************************************************************)
Digit == <<"0", "1", "2", "3", "4", "5", "6", "7", "8", "9">>

\* '{}'.format(n) of Python and the integer output conversion of awk.
RECURSIVE ToStr(_)
ToStr(n) ==
    IF n < 0 THEN "-" \o ToStr(0 - n)
    ELSE IF n < 10 THEN Digit[n + 1]
    ELSE ToStr(n \div 10) \o Digit[(n % 10) + 1]

\* Byte values of the characters that occur in peak lines (LC_COLLATE=C).
Ord(c) ==
    CASE c = "\t" -> 9
      [] c = "-" -> 45
      [] c = "." -> 46
      [] c = "0" -> 48
      [] c = "1" -> 49
      [] c = "2" -> 50
      [] c = "3" -> 51
      [] c = "4" -> 52
      [] c = "5" -> 53
      [] c = "6" -> 54
      [] c = "7" -> 55
      [] c = "8" -> 56
      [] c = "9" -> 57
      [] c = "P" -> 80
      [] c = "U" -> 85
      [] c = "_" -> 95
      [] c = "a" -> 97
      [] c = "c" -> 99
      [] c = "e" -> 101
      [] c = "h" -> 104
      [] c = "k" -> 107
      [] c = "p" -> 112
      [] c = "r" -> 114

\* memcmp order of two strings: s sorts strictly before t.
RECURSIVE BytesLess(_, _)
BytesLess(s, t) ==
    IF t = "" THEN FALSE
    ELSE IF s = "" THEN TRUE
    ELSE IF Head(s) = Head(t) THEN BytesLess(Tail(s), Tail(t))
    ELSE Ord(Head(s)) < Ord(Head(t))

StartsWith(s, p) == Len(s) >= Len(p) /\ SubSeq(s, 1, Len(p)) = p

EndsWith(s, e) ==
    Len(s) >= Len(e) /\ SubSeq(s, Len(s) - Len(e) + 1, Len(s)) = e

(***************************************************************************)
(* Peak files.  A narrowPeak record has the 10 columns chrom, start, end,  *)
(* name, score, strand, signalValue, pValue, qValue, summit; a file is a   *)
(* sequence of records, and its text is one tab-separated line per record. *)
(***************************************************************************)
Peak(chrom, start, end, name, score, strand, signalValue, pValue, qValue, summit) ==
    [chrom |-> chrom, start |-> start, end |-> end, name |-> name,
     score |-> score, strand |-> strand, signalValue |-> signalValue,
     pValue |-> pValue, qValue |-> qValue, summit |-> summit]

\* The text of a record: what sort(1) compares as the whole line.
Line(r) ==
    r.chrom \o "\t" \o ToStr(r.start) \o "\t" \o ToStr(r.end) \o "\t"
      \o r.name \o "\t" \o ToStr(r.score) \o "\t" \o r.strand \o "\t"
      \o ToStr(r.signalValue) \o "\t" \o ToStr(r.pValue) \o "\t"
      \o ToStr(r.qValue) \o "\t" \o ToStr(r.summit)

\* A sort on column 7 (-k 7gr,7gr).
SortKeySignalValue(r) == r.signalValue

\* sort -k 8gr,8gr: the key is column 8, compared as a number, reversed.
SortKey(r) == r.pValue

\* A comparison that looks at the key alone.
SortsBeforeKeyOnly(a, b) == a.pValue > b.pValue

\* The comparison of sort(1) without -s: the key first; records whose keys
\* are equal are ordered by the last-resort comparison, the bytes of the
\* whole line, ascending (the r of the key does not apply to it).
SortsBefore(a, b) ==
    \/ SortKey(a) > SortKey(b)
    \/ SortKey(a) = SortKey(b) /\ BytesLess(Line(a), Line(b))

RECURSIVE Insert(_, _)
Insert(r, s) ==
    IF s = <<>> THEN <<r>>
    ELSE IF SortsBefore(r, Head(s)) THEN <<r>> \o s
    ELSE <<Head(s)>> \o Insert(r, Tail(s))

\* LC_COLLATE=C sort -S <n>M -k 8gr,8gr "<prefix>_peaks.narrowPeak"
RECURSIVE Sort(_)
Sort(s) == IF s = <<>> THEN <<>> ELSE Insert(Head(s), Sort(Tail(s)))

\* int() of awk and of Python: n / d truncated toward zero (d > 0).
TruncDiv(n, d) == IF n >= 0 THEN n \div d ELSE 0 - ((0 - n) \div d)

\* awk: int(n / 2.0)
IntHalf(n) == TruncDiv(n, 2)

\* An awk program that numbers the records from 0.
AwkRecordZeroBased(r, nr) ==
    LET start == IF r.start < 0 THEN 0 ELSE r.start
        end == IF r.end < 0 THEN 0 ELSE r.end
        summit == IF r.summit = -1
                  THEN start + IntHalf(end - start + 1)
                  ELSE r.summit
    IN  [r EXCEPT !.name = "Peak_" \o ToStr(nr - 1), !.start = start,
                  !.end = end, !.summit = summit]

\* The awk program applied to input line number nr:
\*   $4="Peak_"NR; if ($2<0) $2=0; if ($3<0) $3=0;
\*   if ($10==-1) $10=$2+int(($3-$2+1)/2.0); print $0
AwkRecord(r, nr) ==
    LET start == IF r.start < 0 THEN 0 ELSE r.start
        end == IF r.end < 0 THEN 0 ELSE r.end
        summit == IF r.summit = -1
                  THEN start + IntHalf(end - start + 1)
                  ELSE r.summit
    IN  [r EXCEPT !.name = "Peak_" \o ToStr(nr), !.start = start,
                  !.end = end, !.summit = summit]

Awk(s) == [i \in 1..Len(s) |-> AwkRecord(s[i], i)]

\* A head that keeps one line too many.
HeadNOneMore(n, s) == SubSeq(s, 1, IF n + 1 < Len(s) THEN n + 1 ELSE Len(s))

\* head -n <n>: the first n lines; for a negative n (head -n -k) all but
\* the last k lines.
HeadN(n, s) ==
    IF n >= 0
    THEN SubSeq(s, 1, IF n < Len(s) THEN n ELSE Len(s))
    ELSE SubSeq(s, 1, IF Len(s) + n > 0 THEN Len(s) + n ELSE 0)

\* The chromosome sizes file given as --chrsz.
ChrSizes == [c \in {"chr1"} |-> 10]

\* bed_clip (encode_lib_genomic): clamp every record into its chromosome;
\* drop records of unknown chromosomes and records left with start > end.
ClipRecord(r) ==
    [r EXCEPT !.start = IF r.start < 0 THEN 0 ELSE r.start,
              !.end = IF r.end > ChrSizes[r.chrom] - 1
                      THEN ChrSizes[r.chrom] - 1 ELSE r.end]

RECURSIVE BedClip(_)
BedClip(s) ==
    IF s = <<>> THEN <<>>
    ELSE LET r == Head(s)
         IN  IF r.chrom \notin DOMAIN ChrSizes THEN BedClip(Tail(s))
             ELSE IF ClipRecord(r).start > ClipRecord(r).end
                  THEN BedClip(Tail(s))
                  ELSE <<ClipRecord(r)>> \o BedClip(Tail(s))

(***************************************************************************)
(* File names.                                                             *)
(***************************************************************************)
\* os.path.basename: what follows the last "/".
LastSlash(path) ==
    LET at == {i \in 1..Len(path) : SubSeq(path, i, i) = "/"} \cup {0}
    IN  CHOOSE m \in at : \A i \in at : i <= m

basename(path) == SubSeq(path, LastSlash(path) + 1, Len(path))

\* os.path.join(a, b) for a relative b.
join(a, b) ==
    IF a = "" THEN b
    ELSE IF EndsWith(a, "/") THEN a \o b
    ELSE a \o "/" \o b

\* strip_ext_ta (encode_lib_common): drop a trailing .tagAlign.gz.
strip_ext_ta(ta) ==
    IF EndsWith(ta, ".tagAlign.gz")
    THEN SubSeq(ta, 1, Len(ta) - Len(".tagAlign.gz"))
    ELSE ta

\* human_readable_number (encode_lib_common): 500000 -> 500K.
Abs(n) == IF n < 0 THEN 0 - n ELSE n

Units == <<"", "K", "M", "G", "T", "P">>

RECURSIVE HumanFrom(_, _)
HumanFrom(num, u) ==
    IF u > Len(Units) THEN ToStr(num) \o "E"
    ELSE IF Abs(num) < 1000 THEN ToStr(num) \o Units[u]
    ELSE HumanFrom(TruncDiv(num, 1000), u + 1)

human_readable_number(num) == HumanFrom(num, 1)

\* subsample_ta_se / subsample_ta_pe (encode_lib_genomic): the path of the
\* subsampled control written into out_dir.
subsample_ta(ta, subsample, out_dir) ==
    join(out_dir, basename(strip_ext_ta(ta))) \o "."
      \o human_readable_number(subsample) \o ".tagAlign.gz"

\* macs2(): the control the caller is given.
EffectiveCtl(a) ==
    IF a.ctl_ta # "" /\ a.ctl_subsample # 0
    THEN subsample_ta(a.ctl_ta, a.ctl_subsample, a.out_dir)
    ELSE a.ctl_ta

\* The limit on the combined base name.
MaxPrefixLen == 200

\* A basename_prefix that compares with the limit of file names itself.
basename_prefix_255(a, ctl) ==
    LET basename_ta == basename(strip_ext_ta(a.ta))
        joined == basename_ta \o "_x_" \o basename(strip_ext_ta(ctl))
    IN  IF ctl # ""
        THEN IF Len(joined) > 255 THEN basename_ta \o "_x_control" ELSE joined
        ELSE basename_ta

\* macs2(): basename_prefix, from the sample a.ta and the control ctl.
basename_prefix(a, ctl) ==
    LET basename_ta == basename(strip_ext_ta(a.ta))
        basename_ctl_ta == basename(strip_ext_ta(ctl))
        joined == basename_ta \o "_x_" \o basename_ctl_ta
    IN  IF ctl # ""
        THEN IF Len(joined) > MaxPrefixLen
             THEN basename_ta \o "_x_control"
             ELSE joined
        ELSE basename_ta

prefix(a, ctl) == join(a.out_dir, basename_prefix(a, ctl))

npeak(a, ctl) ==
    prefix(a, ctl) \o "." \o "pval" \o a.pval_thresh \o "."
      \o human_readable_number(a.cap_num_peak) \o ".narrowPeak.gz"

npeak_tmp(a, ctl) == npeak(a, ctl) \o ".tmp"

npeak_tmp2(a, ctl) == npeak(a, ctl) \o ".tmp2"

peaks_file(a, ctl) == prefix(a, ctl) \o "_peaks.narrowPeak"

(***************************************************************************)
(* The file system.                                                        *)
(***************************************************************************)
WriteFile(f, name, content) ==
    [n \in (DOMAIN f) \cup {name} |-> IF n = name THEN content ELSE f[n]]

\* The shell's expansion of a pattern: a trailing * matches any rest of a
\* name; any other pattern names one file.
Matches(name, pattern) ==
    IF EndsWith(pattern, "*")
    THEN StartsWith(name, SubSeq(pattern, 1, Len(pattern) - 1))
    ELSE name = pattern

\* rm_f (encode_lib_common): rm -f of the patterns; missing files are fine.
rm_f(f, patterns) ==
    [n \in {m \in DOMAIN f : \A q \in patterns : ~Matches(m, q)} |-> f[n]]

Exists(name) == name \in DOMAIN fs

(***************************************************************************)
(* The script.                                                             *)
(***************************************************************************)
NoArgs ==
    [ta |-> "", ctl_ta |-> "", gensz |-> "", pval_thresh |-> "", shift |-> 0,
     fraglen |-> 0, cap_num_peak |-> 0, ctl_subsample |-> 0,
     ctl_paired_end |-> FALSE, out_dir |-> ""]

NoCmd ==
    [t |-> "", c |-> "", n |-> "", g |-> "", p |-> "", shift |-> 0,
     extsize |-> 0]

\* main(): args = parse_arguments(); mkdir_p(args.out_dir).  One invocation
\* of the script starts; the file system is what earlier invocations left.
parse_arguments(a) ==
    /\ pc \in {"idle", "done", "failed"}
    /\ budget > 0
    /\ budget' = budget - 1
    /\ args' = a
    /\ pc' = "macs2"
    /\ rc' = 0
    /\ ctl_ta' = a.ctl_ta
    /\ cmd0' = NoCmd
    /\ UNCHANGED fs

\* macs2(): control subsampling and the names of the files.
macs2_begin ==
    /\ pc = "macs2"
    /\ ctl_ta' = EffectiveCtl(args)
    /\ fs' = IF EffectiveCtl(args) # args.ctl_ta
             THEN WriteFile(fs, EffectiveCtl(args), <<>>)
             ELSE fs
    /\ pc' = "cmd0"
    /\ UNCHANGED <<rc, args, cmd0, budget>>

\* The command line of macs2 callpeak: cmd0.format(...).
Cmd0(a, ctl) ==
    [t |-> a.ta, c |-> ctl, n |-> prefix(a, ctl), g |-> a.gensz,
     p |-> a.pval_thresh, shift |-> 0, extsize |-> a.fraglen]

\* The files macs2 callpeak -B writes besides the peak list.
CallerSideFiles(a, ctl) ==
    {prefix(a, ctl) \o "_peaks.xls", prefix(a, ctl) \o "_summits.bed",
     prefix(a, ctl) \o "_treat_pileup.bdg"}

WriteAll(f, names) ==
    [n \in (DOMAIN f) \cup names |-> IF n \in names THEN <<>> ELSE f[n]]

\* run_shell_cmd(cmd0): the caller exits 0 and has written the raw peaks.
run_cmd0(raw) ==
    /\ pc = "cmd0"
    /\ cmd0' = Cmd0(args, ctl_ta)
    /\ rc' = 0
    /\ fs' = WriteFile(WriteAll(fs, CallerSideFiles(args, ctl_ta)),
                       peaks_file(args, ctl_ta), raw)
    /\ pc' = "getsize"
    /\ UNCHANGED <<args, ctl_ta, budget>>

\* run_shell_cmd(cmd0): the caller exits 0 without a peak list.
run_cmd0_no_output ==
    /\ pc = "cmd0"
    /\ cmd0' = Cmd0(args, ctl_ta)
    /\ rc' = 0
    /\ fs' = WriteAll(fs, CallerSideFiles(args, ctl_ta))
    /\ pc' = "getsize"
    /\ UNCHANGED <<args, ctl_ta, budget>>

\* run_shell_cmd(cmd0): the caller exits non-zero; run_shell_cmd raises.
\* The caller may have written some of its files before.
run_cmd0_fails(partial) ==
    /\ pc = "cmd0"
    /\ cmd0' = Cmd0(args, ctl_ta)
    /\ rc' = 1
    /\ fs' = IF partial
             THEN WriteAll(fs, {prefix(args, ctl_ta) \o "_treat_pileup.bdg"})
             ELSE fs
    /\ pc' = "failed"
    /\ UNCHANGED <<args, ctl_ta, budget>>

\* os.path.getsize('<prefix>_peaks.narrowPeak'): raises if there is none.
\* The size only sets the buffer of sort (-S), which does not change what
\* sort writes.
getsize ==
    /\ pc = "getsize"
    /\ pc' = IF Exists(peaks_file(args, ctl_ta)) THEN "cmd1" ELSE "failed"
    /\ UNCHANGED <<rc, args, ctl_ta, cmd0, fs, budget>>

\* run_shell_cmd(cmd1): sort ... | awk ... > npeak_tmp
run_cmd1 ==
    /\ pc = "cmd1"
    /\ rc' = 0
    /\ fs' = WriteFile(fs, npeak_tmp(args, ctl_ta),
                       Awk(Sort(fs[peaks_file(args, ctl_ta)])))
    /\ pc' = "cmd2"
    /\ UNCHANGED <<args, ctl_ta, cmd0, budget>>

\* run_shell_cmd(cmd1) raises; the redirection has created npeak_tmp.
run_cmd1_fails ==
    /\ pc = "cmd1"
    /\ rc' = 1
    /\ fs' = WriteFile(fs, npeak_tmp(args, ctl_ta), <<>>)
    /\ pc' = "failed"
    /\ UNCHANGED <<args, ctl_ta, cmd0, budget>>

\* run_shell_cmd(cmd2): head -n cap_num_peak npeak_tmp > npeak_tmp2
run_cmd2 ==
    /\ pc = "cmd2"
    /\ rc' = 0
    /\ fs' = WriteFile(fs, npeak_tmp2(args, ctl_ta),
                       HeadN(args.cap_num_peak, fs[npeak_tmp(args, ctl_ta)]))
    /\ pc' = "bed_clip"
    /\ UNCHANGED <<args, ctl_ta, cmd0, budget>>

\* run_shell_cmd(cmd2) raises; the redirection has created npeak_tmp2.
run_cmd2_fails ==
    /\ pc = "cmd2"
    /\ rc' = 1
    /\ fs' = WriteFile(fs, npeak_tmp2(args, ctl_ta), <<>>)
    /\ pc' = "failed"
    /\ UNCHANGED <<args, ctl_ta, cmd0, budget>>

\* bed_clip(npeak_tmp2, chrsz, npeak)
bed_clip ==
    /\ pc = "bed_clip"
    /\ rc' = 0
    /\ fs' = WriteFile(fs, npeak(args, ctl_ta),
                       BedClip(fs[npeak_tmp2(args, ctl_ta)]))
    /\ pc' = "rm_tmp"
    /\ UNCHANGED <<args, ctl_ta, cmd0, budget>>

\* bed_clip raises.
bed_clip_fails ==
    /\ pc = "bed_clip"
    /\ rc' = 1
    /\ pc' = "failed"
    /\ UNCHANGED <<args, ctl_ta, cmd0, fs, budget>>

\* rm_f([npeak_tmp, npeak_tmp2])
rm_tmp ==
    /\ pc = "rm_tmp"
    /\ fs' = rm_f(fs, {npeak_tmp(args, ctl_ta), npeak_tmp2(args, ctl_ta)})
    /\ pc' = "rm_temp_files"
    /\ UNCHANGED <<rc, args, ctl_ta, cmd0, budget>>

\* A macs2() that returns without removing the caller's files.
rm_temp_files_skipped ==
    /\ pc = "rm_temp_files"
    /\ pc' = "assert"
    /\ UNCHANGED <<rc, args, ctl_ta, cmd0, fs, budget>>

\* temp_files.append("<prefix>_*"); rm_f(temp_files); return npeak
rm_temp_files ==
    /\ pc = "rm_temp_files"
    /\ fs' = rm_f(fs, {prefix(args, ctl_ta) \o "_*"})
    /\ pc' = "assert"
    /\ UNCHANGED <<rc, args, ctl_ta, cmd0, budget>>

\* assert_file_not_empty (encode_lib_common): the file exists and has lines.
FileNotEmpty(name) == Exists(name) /\ fs[name] # <<>>

\* A main() that does not verify the returned file.
main_unverified ==
    /\ pc = "assert"
    /\ pc' = "done"
    /\ UNCHANGED <<rc, args, ctl_ta, cmd0, fs, budget>>

\* main(): assert_file_not_empty(npeak); ls_l(args.out_dir); 'All done.'
main_assert ==
    /\ pc = "assert"
    /\ pc' = IF FileNotEmpty(npeak(args, ctl_ta)) THEN "done" ELSE "failed"
    /\ UNCHANGED <<rc, args, ctl_ta, cmd0, fs, budget>>

\* The steps of one invocation after the arguments and the caller's output.
Step ==
    \/ macs2_begin
    \/ run_cmd0_no_output
    \/ \E partial \in BOOLEAN : run_cmd0_fails(partial)
    \/ getsize
    \/ run_cmd1
    \/ run_cmd1_fails
    \/ run_cmd2
    \/ run_cmd2_fails
    \/ bed_clip
    \/ bed_clip_fails
    \/ rm_tmp
    \/ rm_temp_files
    \/ main_assert

(***************************************************************************)
(* Inputs: the raw peak lists the caller writes and the command lines the  *)
(* script is started with.                                                 *)
(***************************************************************************)
PeakDomain ==
    { Peak("chr1", 0, 9, "peak", 0, ".", 5, 20, 0, 3),
      Peak("chr1", 0, 9, "peak", 0, ".", 5, 20, 0, -1),
      Peak("chr1", 4, 9, "peak", 0, ".", 20, 5, 0, -1),
      Peak("chr1", -3, 12, "peak", 0, ".", 1, 5, 0, -1),
      Peak("chr1", 4, -1, "peak", 0, ".", 1, 20, 0, -1),
      Peak("chr1", 10, 12, "peak", 0, ".", 2, 5, 0, 1),
      Peak("chrU", 0, 9, "peak", 0, ".", 1, 1, 0, -1) }

SeqsUpTo(S, n) == UNION {[1..k -> S] : k \in 0..n}

Args(ta, ctl, gensz, pval, shift, fraglen, cap, subsample, paired, dir) ==
    [ta |-> ta, ctl_ta |-> ctl, gensz |-> gensz, pval_thresh |-> pval,
     shift |-> shift, fraglen |-> fraglen, cap_num_peak |-> cap,
     ctl_subsample |-> subsample, ctl_paired_end |-> paired, out_dir |-> dir]

\* The string of n characters c.
RECURSIVE Repeat(_, _)
Repeat(c, n) ==
    IF n = 0 THEN ""
    ELSE LET half == Repeat(c, n \div 2)
         IN  IF n % 2 = 0 THEN half \o half ELSE half \o half \o c

\* Peak lists of every order, every cap: the data path of one invocation.
RawData == SeqsUpTo(PeakDomain, MaxPeaks)

ArgsData ==
    { Args("s.tagAlign.gz", "", "hs", "0.01", 0, 100, cap, 0, FALSE, "") :
        cap \in {-1, 0, 2, 500000} }

\* Invocations that share the output directory.
RawRuns ==
    { <<>>, <<Peak("chr1", 0, 9, "peak", 0, ".", 5, 20, 0, 3)>>,
      <<Peak("chrU", 0, 9, "peak", 0, ".", 1, 1, 0, -1)>> }

ArgsRuns ==
    { Args("s.tagAlign.gz", ctl, "hs", "0.01", 0, 100, 500000, 0, FALSE, "") :
        ctl \in {"", "c.tagAlign.gz"} }

\* The configuration surface: names, control, caller parameters.
RawArgs == {<<>>, <<Peak("chr1", 0, 9, "peak", 0, ".", 5, 20, 0, 3)>>}

SampleNames ==
    {"s.tagAlign.gz", "in/" \o Repeat("a", 98) \o ".tagAlign.gz",
     "in/" \o Repeat("a", 99) \o ".tagAlign.gz"}

ControlNames ==
    {"", "in/c.tagAlign.gz", "in/" \o Repeat("b", 99) \o ".tagAlign.gz"}

ArgsArgs ==
    { Args(ta, ctl, gensz, pval, shift, fraglen, 500000, subsample, paired, dir) :
        ta \in SampleNames, ctl \in ControlNames, gensz \in {"hs", "mm"},
        pval \in {"0.01", "0.05"}, shift \in {0, -75}, fraglen \in {100, 200},
        subsample \in {0, 1000}, paired \in BOOLEAN, dir \in {"", "out"} }

Init(n) ==
    /\ pc = "idle"
    /\ rc = 0
    /\ args = NoArgs
    /\ ctl_ta = ""
    /\ cmd0 = NoCmd
    /\ fs = [n0 \in {} |-> <<>>]
    /\ budget = n

InitRuns == Init(MaxRuns)

NextRuns ==
    \/ \E a \in ArgsRuns : parse_arguments(a)
    \/ \E raw \in RawRuns : run_cmd0(raw)
    \/ Step

Spec == InitRuns /\ [][NextRuns]_vars

InitData == Init(1)

NextData ==
    \/ \E a \in ArgsData : parse_arguments(a)
    \/ \E raw \in RawData : run_cmd0(raw)
    \/ Step

SpecData == InitData /\ [][NextData]_vars

InitArgs == Init(1)

NextArgs ==
    \/ \E a \in ArgsArgs : parse_arguments(a)
    \/ \E raw \in RawArgs : run_cmd0(raw)
    \/ Step

SpecArgs == InitArgs /\ [][NextArgs]_vars

(***************************************************************************)
(* Properties.                                                             *)
(***************************************************************************)
\* The contents of the files of the current invocation.
Raw == fs[peaks_file(args, ctl_ta)]
Tmp == fs[npeak_tmp(args, ctl_ta)]
Tmp2 == fs[npeak_tmp2(args, ctl_ta)]
Final == fs[npeak(args, ctl_ta)]

Min(a, b) == IF a < b THEN a ELSE b
Max(a, b) == IF a > b THEN a ELSE b

Perms(n) == {f \in [1..n -> 1..n] : \A i, j \in 1..n : f[i] = f[j] => i = j}

\* tmp holds, at position i, the rewritten raw record number f[i].
SortedBy(f) ==
    /\ Len(Tmp) = Len(Raw)
    /\ \A i \in 1..Len(Tmp) : Tmp[i] = AwkRecord(Raw[f[i]], i)

\* C1 as stated: after cmd1 the records are in descending order of column 7
\* (signalValue): each record's signalValue is >= that of the next record.
C1_Original ==
    pc = "cmd2" =>
        \A i \in 1..(Len(Tmp) - 1) : Tmp[i].signalValue >= Tmp[i + 1].signalValue

\* C1 amended: after cmd1 the file holds as many records as the raw peak
\* list, in descending order of column 8 (pValue): each record's pValue is
\* >= that of the next record.
C1_SortedByColumn8 ==
    pc = "cmd2" =>
        /\ Len(Tmp) = Len(Raw)
        /\ \A i \in 1..(Len(Tmp) - 1) : Tmp[i].pValue >= Tmp[i + 1].pValue

\* A raw list in ascending pValue order has been sorted: its records now
\* descend in pValue and ascend in signalValue.
C1_Witness ==
    /\ pc = "cmd2"
    /\ Len(Raw) >= 2
    /\ Raw[1].pValue < Raw[2].pValue
    /\ Tmp[1].pValue > Tmp[2].pValue
    /\ Tmp[1].signalValue < Tmp[2].signalValue

\* C2 as stated: for every accepted cap_num_peak the clipper is handed at
\* most cap_num_peak records, the first ones of the sorted, normalized
\* sequence, and the final file holds at most cap_num_peak records.
C2_Original ==
    /\ pc = "bed_clip" =>
        /\ Len(Tmp2) <= args.cap_num_peak
        /\ Tmp2 = SubSeq(Tmp, 1, Len(Tmp2))
    /\ pc = "rm_tmp" => Len(Final) <= args.cap_num_peak

\* C2 amended: the records handed to the clipper are the first records of
\* the sorted, normalized sequence: min(cap_num_peak, n) of its n records
\* when cap_num_peak >= 0, and max(0, n + cap_num_peak) of them when
\* cap_num_peak < 0; the final file holds no more records than were handed
\* to the clipper.
C2_CapIsHeadCount ==
    /\ pc = "bed_clip" =>
        /\ Tmp2 = SubSeq(Tmp, 1, Len(Tmp2))
        /\ args.cap_num_peak >= 0
             => Len(Tmp2) = Min(args.cap_num_peak, Len(Tmp))
        /\ args.cap_num_peak < 0
             => Len(Tmp2) = Max(0, Len(Tmp) + args.cap_num_peak)
    /\ pc = "rm_tmp" => Len(Final) <= Len(Tmp2)

\* Three sorted records have been cut down to a cap of two.
C2_Witness ==
    /\ pc = "bed_clip"
    /\ args.cap_num_peak = 2
    /\ Len(Tmp) = 3
    /\ Len(Tmp2) = 2

\* C3: the record at position i of the sorted sequence, and of the capped
\* sequence, is named Peak_i; every record of the final file is the clipped
\* record of some position i of the capped sequence and is named Peak_i;
\* no two records of the final file share a name.
C3_NamesArePositions ==
    /\ pc \in {"cmd2", "bed_clip", "rm_tmp"} =>
        \A i \in 1..Len(Tmp) : Tmp[i].name = "Peak_" \o ToStr(i)
    /\ pc \in {"bed_clip", "rm_tmp"} =>
        \A i \in 1..Len(Tmp2) : Tmp2[i].name = "Peak_" \o ToStr(i)
    /\ pc = "rm_tmp" =>
        /\ \A k \in 1..Len(Final) :
              \E i \in 1..Len(Tmp2) :
                  /\ Final[k].name = "Peak_" \o ToStr(i)
                  /\ Final[k].pValue = Tmp2[i].pValue
                  /\ Final[k].chrom = Tmp2[i].chrom
        /\ \A k, l \in 1..Len(Final) : Final[k].name = Final[l].name => k = l

\* The final file holds a record whose name is its rank in the sorted
\* sequence and not its position in the final file.
C3_Witness ==
    /\ pc = "rm_tmp"
    /\ Len(Final) >= 1
    /\ Len(Tmp) = 3
    /\ Final[1].name = "Peak_2"

\* C4 as stated: a record whose raw summit is -1 leaves the awk program with
\* summit = floor((end - start + 1) / 2) of its repaired start and end; any
\* other record keeps its summit.
C4_Original ==
    pc = "cmd2" =>
        \E f \in Perms(Len(Raw)) :
            /\ SortedBy(f)
            /\ \A i \in 1..Len(Tmp) :
                  IF Raw[f[i]].summit = -1
                  THEN Tmp[i].summit = (Tmp[i].end - Tmp[i].start + 1) \div 2
                  ELSE Tmp[i].summit = Raw[f[i]].summit

\* C7 as stated: records with equal keys keep the relative order they had in
\* the raw caller output.
C7_Original ==
    pc = "cmd2" =>
        \E f \in Perms(Len(Raw)) :
            /\ SortedBy(f)
            /\ \A i, j \in 1..Len(Tmp) :
                  (i < j /\ Raw[f[i]].pValue = Raw[f[j]].pValue) => f[i] < f[j]

\* C7 amended: records with equal keys (column 8) are in ascending byte
\* order of their whole raw lines, whatever their order in the raw caller
\* output was.
C7_TiesInByteOrder ==
    pc = "cmd2" =>
        \E f \in Perms(Len(Raw)) :
            /\ SortedBy(f)
            /\ \A i, j \in 1..Len(Tmp) :
                  (i < j /\ Raw[f[i]].pValue = Raw[f[j]].pValue)
                      => ~BytesLess(Line(Raw[f[j]]), Line(Raw[f[i]]))

\* Two raw records with equal keys whose lines were in descending byte order
\* have been sorted.
C7_Witness ==
    /\ pc = "cmd2"
    /\ Len(Raw) >= 2
    /\ Raw[1].pValue = Raw[2].pValue
    /\ BytesLess(Line(Raw[2]), Line(Raw[1]))

\* No intermediate file and no file of the caller is left.
Clean ==
    \A f \in DOMAIN fs :
        /\ f # npeak_tmp(args, ctl_ta)
        /\ f # npeak_tmp2(args, ctl_ta)
        /\ ~StartsWith(f, prefix(args, ctl_ta) \o "_")

\* A step of macs2() raises.
StepFails ==
    pc \in {"cmd0", "getsize", "cmd1", "cmd2", "bed_clip"} /\ pc' = "failed"

\* The step removes no file.
KeepsFiles == \A f \in DOMAIN fs : f \in DOMAIN fs'

C6_SuccessOnlyWithOutput ==
    /\ [](pc = "done" => FileNotEmpty(npeak(args, ctl_ta)))
    /\ [][(pc = "cmd0" /\ rc' # 0) => pc' = "failed"]_vars
    /\ [][(pc = "getsize" /\ ~Exists(peaks_file(args, ctl_ta)))
            => pc' = "failed"]_vars
    /\ [][(pc = "assert" /\ ~FileNotEmpty(npeak(args, ctl_ta)))
            => pc' = "failed"]_vars
    /\ [][pc = "failed" => (pc' = "macs2" /\ fs' = fs)]_vars

\* A run has ended in failure on a final file that exists and is empty.
C6_Witness ==
    /\ pc = "failed"
    /\ rc = 0
    /\ Exists(npeak(args, ctl_ta))
    /\ Final = <<>>
    /\ ~Exists(peaks_file(args, ctl_ta))

\* C8 as stated: the caller's command carries the configured shift,
\* fragment length, genome size and p-value threshold.
C8_Original ==
    cmd0 # NoCmd =>
        /\ cmd0.shift = args.shift
        /\ cmd0.extsize = args.fraglen
        /\ cmd0.g = args.gensz
        /\ cmd0.p = args.pval_thresh

\* C9: the final file is named after the sample alone when there is no
\* control, after <sample>_x_<control> when that string has at most 200
\* characters, and after <sample>_x_control otherwise (the control being the
\* one handed to the caller).
C9_FinalName ==
    pc \in {"rm_tmp", "rm_temp_files", "assert", "done"} =>
        LET sample == basename(strip_ext_ta(args.ta))
            control == basename(strip_ext_ta(ctl_ta))
            expected ==
                IF args.ctl_ta = "" THEN sample
                ELSE IF Len(sample) + Len("_x_") + Len(control) <= 200
                     THEN sample \o "_x_" \o control
                     ELSE sample \o "_x_control"
        IN  Exists(join(args.out_dir, expected) \o ".pval" \o args.pval_thresh
                     \o "." \o human_readable_number(args.cap_num_peak)
                     \o ".narrowPeak.gz")

\* A final file has been written under the placeholder name.
C9_Witness ==
    /\ pc = "done"
    /\ args.ctl_ta # ""
    /\ Len(basename(strip_ext_ta(args.ta))) + 3
         + Len(basename(strip_ext_ta(ctl_ta))) = 201
    /\ Exists(join(args.out_dir, basename(strip_ext_ta(args.ta)) \o "_x_control")
                \o ".pval" \o args.pval_thresh \o ".500K.narrowPeak.gz")

\* A final file: only bed_clip writes names that end so.
IsFinal(f) == EndsWith(f, ".narrowPeak.gz")

\* The next step is one of the two removals.
InCleanup == pc \in {"rm_tmp", "rm_temp_files"}

\* The step leaves every final file in place and unchanged.
KeepsFinals ==
    \A f \in DOMAIN fs : IsFinal(f) => (f \in DOMAIN fs' /\ fs'[f] = fs[f])

\* C10 as stated: the two removals of the cleanup leave every final file,
\* of this and of earlier invocations, in place and unchanged.
C10_Original ==
    [][InCleanup => KeepsFinals]_vars

====
